---- MODULE Spec2Model ----
(***************************************************************************)
(* Model of compile_time_regexp.hpp: pattern -> Normalize -> NfaParser     *)
(* -> DfaBuilder -> FixedDfa -> Match.                                     *)
(*                                                                         *)
(* Bytes are the numbers 0..255 (the object representation of a char).     *)
(* char is taken as signed, as on the x86-64 targets of g++ and clang++;   *)
(* signedness only enters the hash of a byte and the order test of a       *)
(* character-class range.                                                  *)
(* A 32-bit unsigned value is a pair <<hi, lo>> of 16-bit halves, so that  *)
(* the arithmetic modulo 2^32 of the hash functions stays exact.           *)
(* A pointer to an NfaState is its index in NfaParser::states (which is    *)
(* its id); a pointer to a DfaState is its index in the heap of DfaStates  *)
(* in allocation order (which is its No()).                                *)
(***************************************************************************)
EXTENDS Integers, Sequences, FiniteSets, TLC

\* ---------------------------------------------------------------------
\* Byte codes.
\* ---------------------------------------------------------------------
EPSILON == 0
OP_CONCAT == 38
OP_UNION == 124
OP_CLOSURE == 42
OP_LEFT_PAIR == 40
OP_RIGHT_PAIR == 41
OP_PLUS == 43
OP_OPTIONAL == 63
OP_RANGE_START == 91
OP_RANGE_END == 93
OP_RANGE_TO == 45
BACKSLASH == 92
DefaultAlphabetSize == 128

\* ---------------------------------------------------------------------
\* 32-bit unsigned arithmetic on <<hi, lo>> pairs.
\* ---------------------------------------------------------------------
RECURSIVE Xor(_, _)
Xor(a, b) ==
  IF a = 0 THEN b
  ELSE IF b = 0 THEN a
  ELSE (((a % 2) + (b % 2)) % 2) + 2 * Xor(a \div 2, b \div 2)

U32Xor(h, v) == <<Xor(h[1], v[1]), Xor(h[2], v[2])>>

\* h * 16777619 mod 2^32, with 16777619 = 256 * 2^16 + 403.
U32MulPrime(h) ==
  LET t == h[2] * 403
  IN  <<(h[1] * 403 + h[2] * 256 + (t \div 65536)) % 65536, t % 65536>>

\* (h + i) mod 2^32 for a small i.
U32Add(h, i) ==
  LET t == h[2] + i
  IN  <<(h[1] + (t \div 65536)) % 65536, t % 65536>>

U32Mod(h, m) == ((h[1] % m) * (65536 % m) + (h[2] % m)) % m

\* A char converted to uint32_t: sign extension of a signed char.
CharToU32(b) == IF b >= 128 THEN <<65535, 65280 + b>> ELSE <<0, b>>

\* The value of a signed char.
SChar(b) == IF b >= 128 THEN b - 256 ELSE b

FnvInit == <<33052, 40389>>

RECURSIVE fnv32(_, _, _)
fnv32(s, i, h) ==
  IF i > Len(s) THEN h
  ELSE fnv32(s, i + 1, U32Xor(U32MulPrime(h), CharToU32(s[i])))

HashChar(c) == fnv32(<<c>>, 1, FnvInit)

HashU32(v) ==
  fnv32(<<v[2] % 256, v[2] \div 256, v[1] % 256, v[1] \div 256>>, 1, FnvInit)

RECURSIVE HashVecFrom(_, _, _)
HashVecFrom(v, i, h) ==
  IF i > Len(v) THEN h
  ELSE HashVecFrom(v, i + 1, U32Xor(U32MulPrime(h), <<0, v[i]>>))

HashVec(v) == HashVecFrom(v, 1, FnvInit)

\* hash<State *> of an NfaState, whose id is its index.
HashNfaPtr(p) == HashU32(<<0, p>>)

\* ---------------------------------------------------------------------
\* stack<T>: a sequence, top at the end.
\* ---------------------------------------------------------------------
StackTop(a) == a[Len(a)]
StackPush(a, v) == Append(a, v)
StackPop(a) == SubSeq(a, 1, Len(a) - 1)

\* ---------------------------------------------------------------------
\* map<K, V, H>: open addressing.  b is the slot buffer (slot p of the
\* code is b[p + 1]), cap its capacity, n the number of elements.  The k
\* and v of an unused slot are never read by the code and are kept as 0.
\* Every operation takes the hash h of its key.
\* ---------------------------------------------------------------------
UnusedSlot == [used |-> FALSE, k |-> 0, v |-> 0]
NewMap == [b |-> <<>>, cap |-> 0, n |-> 0]

MapMod(h, i, cap) == U32Mod(U32Add(h, i), cap)

RECURSIVE ResizePlace(_, _, _)
ResizePlace(nb, sl, j) ==
  IF j > Len(nb) THEN nb
  ELSE IF ~nb[j].used THEN [nb EXCEPT ![j] = [used |-> TRUE, k |-> sl.k, v |-> sl.v]]
  ELSE ResizePlace(nb, sl, j + 1)

RECURSIVE ResizeCopy(_, _, _)
ResizeCopy(ob, i, nb) ==
  IF i > Len(ob) THEN nb
  ELSE IF ob[i].used THEN ResizeCopy(ob, i + 1, ResizePlace(nb, ob[i], 1))
  ELSE ResizeCopy(ob, i + 1, nb)

MapResize(m) ==
  LET new_cap == IF m.cap * 2 > 7 THEN m.cap * 2 ELSE 7
  IN  [b |-> ResizeCopy(m.b, 1, [j \in 1..new_cap |-> UnusedSlot]),
       cap |-> new_cap, n |-> m.n]

\* getp: the 1-based index of the slot holding k, 0 for nullptr.
RECURSIVE MapGetpFrom(_, _, _, _)
MapGetpFrom(m, k, h, i) ==
  IF i >= m.cap THEN 0
  ELSE LET p == MapMod(h, i, m.cap) + 1
       IN  IF m.b[p].used /\ m.b[p].k = k THEN p
           ELSE MapGetpFrom(m, k, h, i + 1)

MapGetp(m, k, h) == IF m.n = 0 THEN 0 ELSE MapGetpFrom(m, k, h, 0)

MapHas(m, k, h) == MapGetp(m, k, h) # 0

\* get: the value; the code throws when the key is absent, and no caller
\* in the pipeline asks for an absent key.
MapGet(m, k, h) == m.b[MapGetp(m, k, h)].v

RECURSIVE MapSetFrom(_, _, _, _, _)
MapSetFrom(m, k, v, h, i) ==
  IF i >= m.cap THEN m
  ELSE LET p == MapMod(h, i, m.cap) + 1
       IN  IF ~m.b[p].used
             THEN [m EXCEPT !.b[p] = [used |-> TRUE, k |-> k, v |-> v],
                            !.n = @ + 1]
           ELSE IF m.b[p].k = k
             THEN [m EXCEPT !.b[p] = [used |-> TRUE, k |-> k, v |-> v]]
           ELSE MapSetFrom(m, k, v, h, i + 1)

\* cap * 0.8 < n + 1 is decided on integers: cap is 0 or 7 * 2^j, never a
\* multiple of 5, so cap * 0.8 is never an integer and rounding cannot
\* change the comparison.
MapSet(m, k, v, h) ==
  LET m1 == IF m.cap < m.n + 1 \/ m.cap * 8 < (m.n + 1) * 10
            THEN MapResize(m) ELSE m
  IN  MapSetFrom(m1, k, v, h, 0)

\* operator[]: the map in which k is present (with the default value dv
\* when it was absent); the caller then reads or writes the slot of k.
MapSubscript(m, k, h, dv) ==
  IF MapGetp(m, k, h) # 0 THEN m ELSE MapSet(m, k, dv, h)

\* The write through the reference that operator[] returns.
MapPut(m, k, v, h) == [m EXCEPT !.b[MapGetp(m, k, h)].v = v]

\* m[k] = v
MapAssign(m, k, v, h, dv) == MapPut(MapSubscript(m, k, h, dv), k, v, h)

RECURSIVE MapPopFrom(_, _, _, _)
MapPopFrom(m, k, h, i) ==
  IF i >= m.cap THEN m
  ELSE LET p == MapMod(h, i, m.cap) + 1
       IN  IF m.b[p].used /\ m.b[p].k = k
             THEN MapPopFrom([m EXCEPT !.b[p] = UnusedSlot, !.n = @ - 1], k, h, i + 1)
           ELSE MapPopFrom(m, k, h, i + 1)

MapPop(m, k, h) == IF m.n = 0 THEN m ELSE MapPopFrom(m, k, h, 0)

\* The slots an iterator visits, in order: begin() and end() are the
\* empty iterator when n = 0, and ++ seeks the next used slot.
RECURSIVE IterFrom(_, _, _)
IterFrom(b, j, acc) ==
  IF j > Len(b) THEN acc
  ELSE IterFrom(b, j + 1, IF b[j].used THEN Append(acc, b[j]) ELSE acc)

MapIter(m) == IF m.n = 0 THEN <<>> ELSE IterFrom(m.b, 1, <<>>)

Keys(items) == [j \in 1..Len(items) |-> items[j].k]

\* The keys an iterator over a set visits, in order.
SetIter(s) == Keys(MapIter(s))

\* set<T, H>::add
SetAdd(s, v, h) == MapAssign(s, v, TRUE, h, FALSE)

\* ---------------------------------------------------------------------
\* Helpers of the parser.
\* ---------------------------------------------------------------------
IsCalculationOperator(c) ==
  c \in {OP_CONCAT, OP_UNION, OP_CLOSURE, OP_PLUS, OP_OPTIONAL}

GetOperatorPriority(op) ==
  IF op = OP_CONCAT THEN 1
  ELSE IF op = OP_UNION THEN 1
  ELSE IF op \in {OP_CLOSURE, OP_PLUS, OP_OPTIONAL} THEN 2
  ELSE 0

IsRightActingOperator(c) == c \in {OP_CONCAT, OP_UNION, OP_LEFT_PAIR}

IsAbleInsertConcat(c) ==
  c \notin {OP_CONCAT, OP_UNION, OP_CLOSURE, OP_RIGHT_PAIR, OP_PLUS,
            OP_OPTIONAL, OP_RANGE_END, OP_RANGE_TO}

\* ---------------------------------------------------------------------
\* NfaState and Nfa.  sts is NfaParser::states, the vector of allocated
\* states; the state with id j is sts[j].
\* ---------------------------------------------------------------------
NewNfaState(is_end) == [is_end |-> is_end, transitions |-> NewMap]

NewState(sts, is_end) == Append(sts, NewNfaState(is_end))

\* transitions[c].add(to), once operator[] has made c present.
TransitionsAdd(t, c, to) ==
  [t EXCEPT !.b[MapGetp(t, c, HashChar(c))].v = SetAdd(@, to, HashNfaPtr(to))]

\* AddTransition that leaves the accepting flag as it is.
AddTransition_KeepEnd(sts, from, c, to) ==
  [sts EXCEPT ![from].transitions =
     TransitionsAdd(MapSubscript(@, c, HashChar(c), NewMap), c, to)]

\* NfaState::AddTransition on the state from.
AddTransition(sts, from, c, to) ==
  [sts EXCEPT ![from] =
     [is_end |-> FALSE,
      transitions |->
        TransitionsAdd(MapSubscript(@.transitions, c, HashChar(c), NewMap), c, to)]]

AcceptC(st, c) == MapHas(st.transitions, c, HashChar(c))

Nexts(st, c) == MapGet(st.transitions, c, HashChar(c))

Nfa(start, end, size) == [start |-> start, end |-> end, size |-> size]

\* A run of AddTransition calls: es[j] is <<from, c, to>>.
RECURSIVE AddTransitions(_, _, _)
AddTransitions(sts, es, j) ==
  IF j > Len(es) THEN sts
  ELSE AddTransitions(AddTransition(sts, es[j][1], es[j][2], es[j][3]), es, j + 1)

\* The two NewState calls that open a fragment: start is then state
\* Len(sts) + 1 and end is state Len(sts) + 2.
NewStartEnd(sts) == NewState(NewState(sts, FALSE), TRUE)

\* Each NewNfaFrom... gives the states vector after it and the new Nfa.
NewNfaFromSymbol(sts, c) ==
  LET start == Len(sts) + 1
      end == Len(sts) + 2
  IN  [sts |-> AddTransitions(NewStartEnd(sts), <<<<start, c, end>>>>, 1),
       nfa |-> Nfa(start, end, 2)]

NewNfaFromSymbols(sts, chs) ==
  LET start == Len(sts) + 1
      end == Len(sts) + 2
      cs == SetIter(chs)
  IN  [sts |-> AddTransitions(
                 NewStartEnd(sts),
                 IF chs.n # 0 THEN [j \in 1..Len(cs) |-> <<start, cs[j], end>>]
                 ELSE <<<<start, EPSILON, end>>>>, 1),
       nfa |-> Nfa(start, end, 2)]

\* for (auto x = start; x <= end; x++) chs.add(x), on signed chars.  A
\* range that ends at 127 makes the loop of the code run forever; the
\* patterns of the model have none.
RECURSIVE RangeAdd(_, _, _)
RangeAdd(chs, x, end) ==
  IF x > end THEN chs
  ELSE RangeAdd(SetAdd(chs, (x + 256) % 256, HashChar((x + 256) % 256)),
                x + 1, end)

RECURSIVE RangesAdd(_, _, _)
RangesAdd(chs, ranges, j) ==
  IF j > Len(ranges) THEN chs
  ELSE RangesAdd(RangeAdd(chs, SChar(ranges[j][1]), SChar(ranges[j][2])),
                 ranges, j + 1)

NewNfaFromRanges(sts, ranges) ==
  NewNfaFromSymbols(sts, RangesAdd(NewMap, ranges, 1))

NewNfaFromConcat(sts, a, b) ==
  [sts |-> AddTransitions(sts, <<<<a.end, EPSILON, b.start>>>>, 1),
   nfa |-> Nfa(a.start, b.end, a.size + b.size)]

NewNfaFromUnion(sts, a, b) ==
  LET start == Len(sts) + 1
      end == Len(sts) + 2
  IN  [sts |-> AddTransitions(
                 NewStartEnd(sts),
                 <<<<start, EPSILON, a.start>>, <<start, EPSILON, b.start>>,
                   <<a.end, EPSILON, end>>, <<b.end, EPSILON, end>>>>, 1),
       nfa |-> Nfa(start, end, a.size + b.size + 2)]

NewNfaFromClosure(sts, a) ==
  LET start == Len(sts) + 1
      end == Len(sts) + 2
  IN  [sts |-> AddTransitions(
                 NewStartEnd(sts),
                 <<<<a.end, EPSILON, a.start>>, <<start, EPSILON, a.start>>,
                   <<a.end, EPSILON, end>>, <<start, EPSILON, end>>>>, 1),
       nfa |-> Nfa(start, end, a.size + 2)]

\* NewNfaFromConcat(a, p) on the closure p of a.
ConcatClosure(p, a) == NewNfaFromConcat(p.sts, a, p.nfa)

NewNfaFromPlus(sts, a) == ConcatClosure(NewNfaFromClosure(sts, a), a)

NewNfaFromOptional(sts, a) ==
  LET start == Len(sts) + 1
      end == Len(sts) + 2
  IN  [sts |-> AddTransitions(
                 NewStartEnd(sts),
                 <<<<start, EPSILON, a.start>>, <<a.end, EPSILON, end>>,
                   <<start, EPSILON, end>>>>, 1),
       nfa |-> Nfa(start, end, a.size + 2)]

\* ---------------------------------------------------------------------
\* NfaParser.  ps is the parser: the normalized pattern s1, the index i
\* of Parse (0-based, as in the code), the two stacks and the states.
\* ub records the stacks of which a pop was executed while they were
\* empty (undefined behaviour: std::vector::back and pop_back on an empty
\* vector); the operators below go on as if that pop had done nothing,
\* and the actions add the outcome in which the evaluation is aborted.
\* ---------------------------------------------------------------------
NewParser ==
  [s1 |-> <<>>, i |-> 0, nfa_stack |-> <<>>, op_stack |-> <<>>,
   states |-> <<>>, ub |-> {}]

\* The top k fragments popped, the fragment of r pushed, and the states
\* vector after the construction of r.
PushNfa(ps, k, r) ==
  [ps EXCEPT !.nfa_stack = StackPush(SubSeq(@, 1, Len(@) - k), r.nfa),
             !.states = r.sts]

\* Calc with an operator of one operand.
CalcUnary(ps, op) ==
  IF Len(ps.nfa_stack) < 1 THEN [ps EXCEPT !.ub = @ \cup {"nfa_stack"}]
  ELSE PushNfa(ps, 1,
         IF op = OP_CLOSURE
           THEN NewNfaFromClosure(ps.states, StackTop(ps.nfa_stack))
         ELSE IF op = OP_PLUS
           THEN NewNfaFromPlus(ps.states, StackTop(ps.nfa_stack))
         ELSE NewNfaFromOptional(ps.states, StackTop(ps.nfa_stack)))

\* Calc with an operator of two operands: b is the top, a is below it.
CalcBinary(ps, op) ==
  IF Len(ps.nfa_stack) < 2 THEN [ps EXCEPT !.ub = @ \cup {"nfa_stack"}]
  ELSE PushNfa(ps, 2,
         IF op = OP_CONCAT
           THEN NewNfaFromConcat(ps.states, StackTop(StackPop(ps.nfa_stack)),
                                 StackTop(ps.nfa_stack))
         ELSE NewNfaFromUnion(ps.states, StackTop(StackPop(ps.nfa_stack)),
                              StackTop(ps.nfa_stack)))

Calc(ps) ==
  IF Len(ps.op_stack) = 0 THEN ps
  ELSE IF StackTop(ps.op_stack) \in {OP_CLOSURE, OP_PLUS, OP_OPTIONAL}
    THEN CalcUnary([ps EXCEPT !.op_stack = StackPop(@)], StackTop(ps.op_stack))
  ELSE IF StackTop(ps.op_stack) \in {OP_CONCAT, OP_UNION}
    THEN CalcBinary([ps EXCEPT !.op_stack = StackPop(@)], StackTop(ps.op_stack))
  ELSE [ps EXCEPT !.op_stack = StackPop(@)]

RECURSIVE NormalizeFrom(_, _, _, _)
NormalizeFrom(s, j, s1, is_in_range) ==
  IF j > Len(s) THEN s1
  ELSE LET c == s[j]
           s2 == IF /\ IsAbleInsertConcat(c)
                    /\ Len(s1) # 0
                    /\ ~IsRightActingOperator(s1[Len(s1)])
                    /\ ~is_in_range
                 THEN Append(s1, OP_CONCAT) ELSE s1
           r  == IF c = OP_RANGE_START THEN TRUE
                 ELSE IF c = OP_RANGE_END THEN FALSE
                 ELSE is_in_range
       IN  NormalizeFrom(s, j + 1, Append(s2, c), r)

Normalize(s) == NormalizeFrom(s, 1, <<>>, FALSE)

\* s1[i] of the code: the byte at 0-based index i, and the terminating
\* '\0' of the std::string at i = size.
CharAt(s1, i) == IF i < Len(s1) THEN s1[i + 1] ELSE 0

\* The loop of a calculation operator: Calc while the top has priority.
RECURSIVE CalcWhilePriority(_, _)
CalcWhilePriority(ps, op) ==
  IF /\ Len(ps.op_stack) # 0
     /\ IsCalculationOperator(StackTop(ps.op_stack))
     /\ GetOperatorPriority(StackTop(ps.op_stack)) >= GetOperatorPriority(op)
  THEN CalcWhilePriority(Calc(ps), op)
  ELSE ps

\* The loop of a right pair: Calc until the top is a left pair.
RECURSIVE CalcUntilLeftPair(_)
CalcUntilLeftPair(ps) ==
  IF Len(ps.op_stack) # 0 /\ StackTop(ps.op_stack) # OP_LEFT_PAIR
  THEN CalcUntilLeftPair(Calc(ps))
  ELSE ps

\* The loop of a range start: the index after it, and the ranges.
RECURSIVE ParseRange(_, _, _, _)
ParseRange(s1, i, range_start, ranges) ==
  IF CharAt(s1, i) # OP_RANGE_END /\ i < Len(s1)
  THEN LET x == s1[i + 1]
       IN  IF x # OP_RANGE_TO
             THEN IF range_start = EPSILON
                    THEN ParseRange(s1, i + 1, x, ranges)
                    ELSE ParseRange(s1, i + 1, EPSILON,
                                    Append(ranges, <<range_start, x>>))
           ELSE ParseRange(s1, i + 1, range_start, ranges)
  ELSE [i |-> i, ranges |-> ranges]

PushSymbol(ps, x) == PushNfa(ps, 0, NewNfaFromSymbol(ps.states, x))

\* Parse, up to its loop: Normalize and the EPSILON fragment.
ParseBegin(ps, s) ==
  PushSymbol([ps EXCEPT !.s1 = Normalize(s), !.i = 0], EPSILON)

PushOp(ps, x) == [ps EXCEPT !.op_stack = StackPush(@, x)]

\* op_stack.pop() of the left pair, after the loop of a right pair.
PopLeftPair(ps) ==
  IF Len(ps.op_stack) = 0 THEN [ps EXCEPT !.ub = @ \cup {"op_stack"}]
  ELSE [ps EXCEPT !.op_stack = StackPop(@)]

\* The fragment of a class, from the index and the ranges of ParseRange.
PushRanges(ps, pr) ==
  PushNfa([ps EXCEPT !.i = pr.i], 0, NewNfaFromRanges(ps.states, pr.ranges))

\* One iteration of the loop of Parse: p1 is the parser after x = s1[i++].
ParseStep(ps) ==
  LET x  == ps.s1[ps.i + 1]
      p1 == [ps EXCEPT !.i = @ + 1]
  IN  IF IsCalculationOperator(x) THEN PushOp(CalcWhilePriority(p1, x), x)
      ELSE IF x = OP_LEFT_PAIR THEN PushOp(p1, x)
      ELSE IF x = OP_RIGHT_PAIR THEN PopLeftPair(CalcUntilLeftPair(p1))
      ELSE IF x = OP_RANGE_START
        THEN PushRanges(p1, ParseRange(p1.s1, p1.i, EPSILON, <<>>))
      ELSE IF x = OP_RANGE_END THEN p1
      ELSE IF x = BACKSLASH
        THEN PushSymbol([p1 EXCEPT !.i = @ + 1], CharAt(p1.s1, p1.i))
      ELSE PushSymbol(p1, x)

\* Parse, after its loop: the remaining operators.
RECURSIVE ParseFinish(_)
ParseFinish(ps) ==
  IF Len(ps.op_stack) # 0 THEN ParseFinish(Calc(ps)) ELSE ps

RECURSIVE ParseLoop(_)
ParseLoop(ps) == IF ps.i < Len(ps.s1) THEN ParseLoop(ParseStep(ps)) ELSE ps

\* NfaParser::Parse as a whole: the parser after it; the Nfa it returns
\* is the top of nfa_stack.
Parse(s) == ParseFinish(ParseLoop(ParseBegin(NewParser, s)))

\* ---------------------------------------------------------------------
\* DfaState, Dfa, unique_queue.  heap is the sequence of the DfaStates
\* allocated by one DfaBuilder, in allocation order; a DfaState pointer
\* is an index of heap.
\* ---------------------------------------------------------------------
DfaState(id, is_end, no) ==
  [id |-> id, is_end |-> is_end, no |-> no % 65536, transitions |-> NewMap]

\* hash<State *> of a DfaState.
HashDfaPtr(heap, p) == HashU32(heap[p].id)

HasTransition(st, c) == MapHas(st.transitions, c, HashChar(c))

Next_(st, c) == MapGet(st.transitions, c, HashChar(c))

\* DfaState::AddTransition on the state S of the heap.
DfaAddTransition(heap, S, c, to) ==
  [heap EXCEPT ![S].transitions = MapAssign(@, c, to, HashChar(c), 0)]

NewDfa(start) == [start |-> start, states |-> NewMap, chs |-> NewMap]

RECURSIVE AddChars(_, _, _)
AddChars(chs, items, j) ==
  IF j > Len(items) THEN chs
  ELSE AddChars(SetAdd(chs, items[j].k, HashChar(items[j].k)), items, j + 1)

\* Dfa::AddState
AddState(dfa, heap, st) ==
  [dfa EXCEPT !.states = SetAdd(@, st, HashDfaPtr(heap, st)),
              !.chs = AddChars(@, MapIter(heap[st].transitions), 1)]

\* Dfa::Match from the state st on the bytes of s from index j.
RECURSIVE DfaMatchFrom(_, _, _, _)
DfaMatchFrom(heap, st, s, j) ==
  IF j > Len(s) THEN heap[st].is_end
  ELSE IF ~HasTransition(heap[st], s[j]) THEN FALSE
  ELSE DfaMatchFrom(heap, Next_(heap[st], s[j]), s, j + 1)

\* Dfa::Match on b, a dfa with the heap of its states.
DfaMatch(b, s) == DfaMatchFrom(b.heap, b.dfa.start, s, 1)

\* unique_queue: the linked list as the sequence items, and the set s.
NewQueue == [items |-> <<>>, s |-> NewMap]

QueueEmpty(q) == q.s.n = 0

QueueHas(q, v, h) == MapHas(q.s, v, h)

QueuePush(q, v, h) ==
  IF MapHas(q.s, v, h) THEN q
  ELSE [items |-> Append(q.items, v), s |-> SetAdd(q.s, v, h)]

\* What push returns: false when the set holds v already.
QueuePushReturn(q, v, h) == ~MapHas(q.s, v, h)

\* pop: the queue after it; the value popped is the head of items.
QueuePop(q, h) == [items |-> Tail(q.items), s |-> MapPop(q.s, Head(q.items), h)]

\* ---------------------------------------------------------------------
\* DfaBuilder.  bd is the builder with the local variables of Build: the
\* maps d, states and epsilon_closure_cache, the heap, the queue q and
\* the dfa.  sts is the vector of NfaStates of the parser.
\* ---------------------------------------------------------------------
RECURSIVE InsertSorted(_, _)
InsertSorted(v, x) ==
  IF Len(v) = 0 THEN <<x>>
  ELSE IF x <= Head(v) THEN <<x>> \o v
  ELSE <<Head(v)>> \o InsertSorted(Tail(v), x)

RECURSIVE SortIds(_, _, _)
SortIds(ids, j, acc) ==
  IF j > Len(ids) THEN acc ELSE SortIds(ids, j + 1, InsertSorted(acc, ids[j]))

\* HashNfaStateIds that hashes the number of the NfaStates of N only.
HashNfaStateIds_Size(N) == HashVec(<<N.n>>)

HashNfaStateIds(N) == HashVec(SortIds(SetIter(N), 1, <<>>))

RECURSIVE Merge(_, _, _)
Merge(set, vs, j) ==
  IF j > Len(vs) THEN set
  ELSE Merge(SetAdd(set, vs[j], HashNfaPtr(vs[j])), vs, j + 1)

\* d[id][c].merge(sts_c), once the two operator[] have made id and c
\* present: the write through the references they return.
TableMerge(t, c, sts_c) ==
  [t EXCEPT !.b[MapGetp(t, c, HashChar(c))].v = Merge(@, SetIter(sts_c), 1)]

DTableMerge(d, id, c, sts_c) ==
  [d EXCEPT !.b[MapGetp(d, id, HashU32(id))].v =
     TableMerge(MapSubscript(@, c, HashChar(c), NewMap), c, sts_c)]

DMerge(d, id, c, sts_c) ==
  DTableMerge(MapSubscript(d, id, HashU32(id), NewMap), id, c, sts_c)

\* The inner loop of NewDfaState: the transitions of one NfaState.
RECURSIVE DMergeItems(_, _, _, _)
DMergeItems(d, id, items, j) ==
  IF j > Len(items) THEN d
  ELSE IF items[j].k # EPSILON
    THEN DMergeItems(DMerge(d, id, items[j].k, items[j].v), id, items, j + 1)
  ELSE DMergeItems(d, id, items, j + 1)

\* The outer loop of NewDfaState: the NfaStates of N.
RECURSIVE DMergeStates(_, _, _, _, _)
DMergeStates(d, id, sts, ns, j) ==
  IF j > Len(ns) THEN d
  ELSE DMergeStates(DMergeItems(d, id, MapIter(sts[ns[j]].transitions), 1),
                    id, sts, ns, j + 1)

\* AllocDfaState with the end flag set when every NfaState of N is an
\* end state, where the code sets it when any is.
AllocDfaState_AllEnd(bd, sts, ns, id) ==
  [bd EXCEPT
     !.d = DMergeStates(@, id, sts, ns, 1),
     !.heap = Append(@, DfaState(id, \A j \in 1..Len(ns) : sts[ns[j]].is_end,
                                 bd.states.n + 1)),
     !.states = MapAssign(@, id, Len(bd.heap) + 1, HashU32(id), 0)]

\* NewDfaState once id is settled: ns are the NfaStates of N in iteration
\* order.  The new state is the last of the heap.
AllocDfaState(bd, sts, ns, id) ==
  [bd EXCEPT
     !.d = DMergeStates(@, id, sts, ns, 1),
     !.heap = Append(@, DfaState(id, \E j \in 1..Len(ns) : sts[ns[j]].is_end,
                                 bd.states.n + 1)),
     !.states = MapAssign(@, id, Len(bd.heap) + 1, HashU32(id), 0)]

\* NewDfaState(N, id): id = <<0, 0>> stands for the default argument 0.
NewDfaState(bd, sts, N, id0) ==
  AllocDfaState(bd, sts, SetIter(N),
                IF id0 = <<0, 0>> THEN HashNfaStateIds(N) ELSE id0)

\* EpsilonClosure: N expanded, with the DFS stack.
RECURSIVE ClosureVisit(_, _, _, _, _)
RECURSIVE ClosureWalk(_, _, _)
ClosureVisit(sts, N, stack, ts, j) ==
  IF j > Len(ts) THEN ClosureWalk(sts, N, stack)
  ELSE IF ~MapHas(N, ts[j], HashNfaPtr(ts[j]))
    THEN ClosureVisit(sts, SetAdd(N, ts[j], HashNfaPtr(ts[j])),
                      StackPush(stack, ts[j]), ts, j + 1)
  ELSE ClosureVisit(sts, N, stack, ts, j + 1)

ClosureWalk(sts, N, stack) ==
  IF Len(stack) = 0 THEN N
  ELSE LET s == StackTop(stack)
       IN  IF ~AcceptC(sts[s], EPSILON) THEN ClosureWalk(sts, N, StackPop(stack))
           ELSE ClosureVisit(sts, N, StackPop(stack),
                             SetIter(Nexts(sts[s], EPSILON)), 1)

\* EpsilonClosure that returns N as it is, following no EPSILON
\* transition.
EpsilonClosure_None(sts, N) == N

EpsilonClosure(sts, N) == ClosureWalk(sts, N, SetIter(N))

\* The return of Move: the builder, and the DfaState states.get(id).
MoveReturn(bd, id) == [bd |-> bd, T |-> MapGet(bd.states, id, HashU32(id))]

\* Move after EpsilonClosure(N1) and id = HashNfaStateIds(N1).
MoveExpanded(bd, sts, kid, N1, id) ==
  MoveReturn(
    [(IF ~MapHas(bd.states, id, HashU32(id)) THEN NewDfaState(bd, sts, N1, id)
      ELSE bd)
       EXCEPT !.epsilon_closure_cache = MapSet(@, kid, id, HashU32(kid))],
    id)

\* Move after the copy N1 = N, when the cache has no kid.
MoveExpand(bd, sts, kid, N1) ==
  MoveExpanded(bd, sts, kid, N1, HashNfaStateIds(N1))

\* Move after kid = HashNfaStateIds(N): the cache is asked first.
MoveCached(bd, sts, N, kid) ==
  IF MapHas(bd.epsilon_closure_cache, kid, HashU32(kid))
    THEN MoveReturn(bd, MapGet(bd.epsilon_closure_cache, kid, HashU32(kid)))
  ELSE MoveExpand(bd, sts, kid, EpsilonClosure(sts, N))

MoveFrom(bd, sts, N) == MoveCached(bd, sts, N, HashNfaStateIds(N))

\* Move(S, c): the builder after it and the DfaState T it returns.
Move(bd, sts, S, c) ==
  MoveFrom(bd, sts,
           MapGet(MapGet(bd.d, bd.heap[S].id, HashU32(bd.heap[S].id)),
                  c, HashChar(c)))

NewBuilder ==
  [d |-> NewMap, states |-> NewMap, epsilon_closure_cache |-> NewMap,
   heap |-> <<>>, q |-> NewQueue, dfa |-> NewDfa(0)]

\* Build after S0 = NewDfaState(N0), the last state of the heap.
BuildQueue(bd) ==
  [bd EXCEPT !.q = QueuePush(NewQueue, Len(bd.heap),
                             HashDfaPtr(bd.heap, Len(bd.heap))),
             !.dfa = NewDfa(Len(bd.heap))]

\* Build, up to its loop.
BuildBegin(bd, sts, nfa) ==
  BuildQueue(
    NewDfaState(bd, sts,
                EpsilonClosure(sts, SetAdd(NewMap, nfa.start,
                                           HashNfaPtr(nfa.start))),
                <<0, 0>>))

\* The body of the loop over chs that enqueues T whether the dfa has it
\* or not.
BuildLink_NoDfaCheck(m, S, c) ==
  [m.bd EXCEPT
     !.heap = DfaAddTransition(@, S, c, m.T),
     !.q = QueuePush(@, m.T, HashDfaPtr(m.bd.heap, m.T))]

\* The body of the loop over chs after T = Move(S, c): m is the return of
\* Move.
BuildLink(m, S, c) ==
  [m.bd EXCEPT
     !.heap = DfaAddTransition(@, S, c, m.T),
     !.q = IF /\ ~MapHas(m.bd.dfa.states, m.T, HashDfaPtr(m.bd.heap, m.T))
              /\ ~QueueHas(@, m.T, HashDfaPtr(m.bd.heap, m.T))
           THEN QueuePush(@, m.T, HashDfaPtr(m.bd.heap, m.T)) ELSE @]

\* The loop over chs in one iteration of the loop of Build.
RECURSIVE BuildChars(_, _, _, _, _)
BuildChars(bd, sts, S, chs, j) ==
  IF j > Len(chs) THEN bd
  ELSE BuildChars(BuildLink(Move(bd, sts, S, chs[j]), S, chs[j]),
                  sts, S, chs, j + 1)

\* One iteration of the loop of Build after S = q.pop(): the transitions
\* of S.
BuildExpand(bd, sts, S) ==
  IF MapHas(bd.d, bd.heap[S].id, HashU32(bd.heap[S].id))
    THEN BuildChars(
           bd, sts, S,
           SetIter(AddChars(NewMap,
                            MapIter(MapGet(bd.d, bd.heap[S].id,
                                           HashU32(bd.heap[S].id))), 1)), 1)
  ELSE bd

\* dfa->AddState(S)
BuildAddState(bd, S) == [bd EXCEPT !.dfa = AddState(@, bd.heap, S)]

\* One iteration of the loop of Build.
BuildStep(bd, sts) ==
  BuildAddState(
    BuildExpand([bd EXCEPT !.q = QueuePop(@, HashDfaPtr(bd.heap, Head(bd.q.items)))],
                sts, Head(bd.q.items)),
    Head(bd.q.items))

RECURSIVE BuildLoop(_, _)
BuildLoop(bd, sts) ==
  IF ~QueueEmpty(bd.q) THEN BuildLoop(BuildStep(bd, sts), sts) ELSE bd

\* DfaBuilder::Build as a whole: the builder after it, with the dfa it
\* returns and the heap of its states.
Build(sts, nfa) == BuildLoop(BuildBegin(NewBuilder, sts, nfa), sts)

\* ---------------------------------------------------------------------
\* Freezing: build, FixedDfa and the two Match functions.
\* ---------------------------------------------------------------------
\* The second half of build: the Build of the Nfa that Parse returned.
BuildNfa(ps) == Build(ps.states, StackTop(ps.nfa_stack))

\* build<pattern>(): the builder after Build, of which the callers use
\* the dfa and the heap of its states.
build(pattern) == BuildNfa(Parse(pattern))

\* ch % AlphabetSize for a char ch and the std::size_t AlphabetSize: ch is
\* converted to std::size_t first, and AlphabetSize divides 2^64 (it is a
\* power of two in both supported configurations), so the result is the
\* byte modulo AlphabetSize whether char is signed or not.
CharIndex(ch, AlphabetSize) == ch % AlphabetSize

\* for (i = 0; i < chs.size(); i++) tmp[chs[i] % AlphabetSize] = i + 1
RECURSIVE FillIndex(_, _, _, _)
FillIndex(tmp, chs, i, AlphabetSize) ==
  IF i > Len(chs) THEN tmp
  ELSE FillIndex([tmp EXCEPT ![CharIndex(chs[i], AlphabetSize) + 1] = i % 256],
                 chs, i + 1, AlphabetSize)

IndexTable(chs, AlphabetSize) ==
  FillIndex([j \in 1..AlphabetSize |-> 0], chs, 1, AlphabetSize)

\* The transitions of one DfaState written into the table.
RECURSIVE FillRow(_, _, _, _, _, _, _)
FillRow(tr, heap, st, items, j, tmp, AlphabetSize) ==
  IF j > Len(items) THEN tr
  ELSE LET col == tmp[CharIndex(items[j].k, AlphabetSize) + 1]
       IN  FillRow([tr EXCEPT ![heap[st].no][col] = heap[items[j].v].no],
                   heap, st, items, j + 1, tmp, AlphabetSize)

RECURSIVE FillTransitions(_, _, _, _, _, _)
FillTransitions(tr, heap, sts, j, tmp, AlphabetSize) ==
  IF j > Len(sts) THEN tr
  ELSE FillTransitions(
         FillRow(tr, heap, sts[j], MapIter(heap[sts[j]].transitions), 1,
                 tmp, AlphabetSize),
         heap, sts, j + 1, tmp, AlphabetSize)

RECURSIVE FillIsEnd(_, _, _, _)
FillIsEnd(tb, heap, sts, j) ==
  IF j > Len(sts) THEN tb
  ELSE FillIsEnd(IF heap[sts[j]].is_end
                   THEN [tb EXCEPT ![heap[sts[j]].no] = TRUE] ELSE tb,
                 heap, sts, j + 1)

\* FixedDfa::FixedDfa(), from b = build<pattern>().  Row st.no and column
\* j of the code's table are transitions[st.no][j] here (1-based).
FixedDfa(b, pre_index, AlphabetSize) ==
  LET chs == SetIter(b.dfa.chs)
      tmp == IndexTable(chs, AlphabetSize)
      sts == SetIter(b.dfa.states)
  IN  [chs |-> chs,
       ch_index_table |-> IF pre_index THEN tmp ELSE <<0>>,
       transitions |->
         FillTransitions(
           [x \in 1..b.dfa.states.n |-> [y \in 1..b.dfa.chs.n |-> 0]],
           b.heap, sts, 1, tmp, AlphabetSize),
       st_is_end_table |->
         FillIsEnd([x \in 1..b.dfa.states.n |-> FALSE], b.heap, sts, 1),
       pre_index |-> pre_index]

RECURSIVE FixedMatchFrom(_, _, _, _, _, _)
FixedMatchFrom(f, t, st, s, i, AlphabetSize) ==
  IF i > Len(s) THEN f.st_is_end_table[st]
  ELSE LET j == t[CharIndex(s[i], AlphabetSize) + 1]
       IN  IF j = 0 THEN FALSE
           ELSE LET to == f.transitions[st][j]
                IN  IF to = 0 THEN FALSE
                    ELSE FixedMatchFrom(f, t, to, s, i + 1, AlphabetSize)

\* FixedDfa::Match
FixedMatch(f, s, AlphabetSize) ==
  LET t == IF f.pre_index THEN f.ch_index_table
           ELSE IndexTable(f.chs, AlphabetSize)
  IN  FixedMatchFrom(f, t, 1, s, 1, AlphabetSize)

\* ctre::Compile<pattern, pre_index, AlphabetSize>()
Compile(pattern, pre_index, AlphabetSize) ==
  FixedDfa(build(pattern), pre_index, AlphabetSize)

\* ctre::Match<pattern>(s): Compile<pattern>().Match(s), with the default
\* pre_index and AlphabetSize of Compile.
MatchRuntime(pattern, s) ==
  FixedMatch(Compile(pattern, FALSE, DefaultAlphabetSize), s,
             DefaultAlphabetSize)

\* ctre::Match<pattern, s>(): build<pattern>()->Match(s).
MatchConsteval(pattern, s) == DfaMatch(build(pattern), s)

\* ---------------------------------------------------------------------
\* Patterns of the pattern grammar, as syntax trees.  A node is a record
\* [t, c, xs]: t its kind, c its byte (or its postfix operator), xs its
\* children.
\*   byte c | esc c | range lo-hi | class [items] | paren (e)
\*   post: atom op | cat: postfix+ | alt: concat ('|' concat)*
\* A raw node is a byte string that no rule derives (the empty pattern,
\* malformed patterns).
\* ---------------------------------------------------------------------
Node(t, c, xs) == [t |-> t, c |-> c, xs |-> xs]
Byte(c) == Node("byte", c, <<>>)
Esc(c) == Node("esc", c, <<>>)
Range(lo, hi) == Node("range", lo, <<Byte(hi)>>)
Class(items) == Node("class", 0, items)
Paren(e) == Node("paren", 0, <<e>>)
Post(a, op) == IF op = 0 THEN a ELSE Node("post", op, <<a>>)
Cat(xs) == Node("cat", 0, xs)
Alt(xs) == Node("alt", 0, xs)
Raw(bytes) == Node("raw", 0, [j \in 1..Len(bytes) |-> Byte(bytes[j])])

RECURSIVE Render(_)
RECURSIVE RenderAll(_, _, _)
RenderAll(xs, j, sep) ==
  IF j > Len(xs) THEN <<>>
  ELSE (IF j > 1 THEN sep ELSE <<>>) \o Render(xs[j]) \o RenderAll(xs, j + 1, sep)

Render(n) ==
  IF n.t = "byte" THEN <<n.c>>
  ELSE IF n.t = "esc" THEN <<BACKSLASH, n.c>>
  ELSE IF n.t = "range" THEN <<n.c, OP_RANGE_TO, n.xs[1].c>>
  ELSE IF n.t = "class"
    THEN <<OP_RANGE_START>> \o RenderAll(n.xs, 1, <<>>) \o <<OP_RANGE_END>>
  ELSE IF n.t = "paren"
    THEN <<OP_LEFT_PAIR>> \o Render(n.xs[1]) \o <<OP_RIGHT_PAIR>>
  ELSE IF n.t = "post" THEN Render(n.xs[1]) \o <<n.c>>
  ELSE IF n.t = "alt" THEN RenderAll(n.xs, 1, <<OP_UNION>>)
  ELSE RenderAll(n.xs, 1, <<>>)

\* The language the grammar assigns to a tree.
RECURSIVE InLang(_, _)
RECURSIVE InCat(_, _, _)
InCat(xs, j, s) ==
  IF j > Len(xs) THEN Len(s) = 0
  ELSE \E k \in 0..Len(s) :
         /\ InLang(xs[j], SubSeq(s, 1, k))
         /\ InCat(xs, j + 1, SubSeq(s, k + 1, Len(s)))

InLang(n, s) ==
  IF n.t \in {"byte", "esc"} THEN s = <<n.c>>
  ELSE IF n.t = "range" THEN Len(s) = 1 /\ n.c <= s[1] /\ s[1] <= n.xs[1].c
  ELSE IF n.t \in {"class", "alt"} THEN \E j \in 1..Len(n.xs) : InLang(n.xs[j], s)
  ELSE IF n.t = "paren" THEN InLang(n.xs[1], s)
  ELSE IF n.t = "cat" THEN InCat(n.xs, 1, s)
  ELSE IF n.t = "post" /\ n.c = OP_OPTIONAL
    THEN Len(s) = 0 \/ InLang(n.xs[1], s)
  ELSE IF n.t = "post" /\ n.c = OP_CLOSURE
    THEN \/ Len(s) = 0
         \/ \E k \in 1..Len(s) :
              /\ InLang(n.xs[1], SubSeq(s, 1, k))
              /\ InLang(n, SubSeq(s, k + 1, Len(s)))
  ELSE IF n.t = "post" /\ n.c = OP_PLUS
    THEN \E k \in 0..Len(s) :
           /\ InLang(n.xs[1], SubSeq(s, 1, k))
           /\ InLang(Post(n.xs[1], OP_CLOSURE), SubSeq(s, k + 1, Len(s)))
  ELSE FALSE

\* The bytes the atoms of a tree denote.
RECURSIVE AtomBytes(_)
AtomBytes(n) ==
  IF n.t \in {"byte", "esc"} THEN {n.c}
  ELSE IF n.t = "range" THEN n.c .. n.xs[1].c
  ELSE UNION {AtomBytes(n.xs[j]) : j \in 1..Len(n.xs)}

\* ---------------------------------------------------------------------
\* The patterns and the inputs of the model.
\* ---------------------------------------------------------------------
MaxUnits == 3
MaxClassItems == 2
MaxRawLen == 2
MaxInputLen == 2
\* The iterations of the loop of Build that a run of the model follows.
MaxIterations == 40

\* The expressions without parentheses over the units us, joined by the
\* separators seps (0: concatenation, 1: '|').
RECURSIVE FlatFrom(_, _, _, _, _)
FlatFrom(us, seps, j, cur, done) ==
  IF j > Len(us) THEN Alt(Append(done, Cat(cur)))
  ELSE IF seps[j - 1] = 1
    THEN FlatFrom(us, seps, j + 1, <<us[j]>>, Append(done, Cat(cur)))
  ELSE FlatFrom(us, seps, j + 1, Append(cur, us[j]), done)

Flat(units, k) ==
  UNION {{FlatFrom(us, seps, 2, <<us[1]>>, <<>>) :
            us \in [1..n -> units], seps \in [1..(n - 1) -> {0, 1}]} :
         n \in 1..k}

Single(u) == Alt(<<Cat(<<u>>)>>)

\* Expressions of bytes with the closure operator: precedence and union.
PlainUnits == {Post(Byte(c), op) : c \in {97, 98}, op \in {0, OP_CLOSURE}}
PlainPatterns == Flat(PlainUnits, MaxUnits)

\* Atoms of every kind.
EscBytes ==
  {OP_LEFT_PAIR, OP_RIGHT_PAIR, OP_UNION, OP_CLOSURE, OP_PLUS, OP_OPTIONAL,
   OP_RANGE_END, OP_RANGE_TO, OP_CONCAT, BACKSLASH, 97}
ClassItems == {Byte(97), Byte(99), Range(97, 98), Range(97, 99)}
Classes ==
  UNION {{Class(items) : items \in [1..n -> ClassItems]} : n \in 1..MaxClassItems}
Parens == {Paren(e) : e \in Flat({Byte(97), Byte(98)}, 2)}
Atoms == {Byte(97)} \cup {Esc(c) : c \in EscBytes} \cup Classes \cup Parens

\* An atom with each postfix operator, alone and next to a byte.  The
\* escaped '[' comes without a postfix operator: Parse opens a class at
\* it and pairs the bytes after it into ranges, which an operator byte
\* would make dozens of bytes wide.
AtomUnits ==
  {Post(a, op) : a \in Atoms, op \in {0, OP_CLOSURE, OP_PLUS, OP_OPTIONAL}}
    \cup {Esc(OP_RANGE_START)}
AtomPatterns ==
  UNION {{Alt(<<Cat(<<u>>)>>), Alt(<<Cat(<<u, Byte(97)>>)>>),
          Alt(<<Cat(<<Byte(97), u>>)>>), Alt(<<Cat(<<u>>), Cat(<<Byte(97)>>)>>),
          Alt(<<Cat(<<Byte(97)>>), Cat(<<u>>)>>)} : u \in AtomUnits}

\* Bytes at and above the alphabet size: 225 = 97 + 128.
HighPatterns == Flat({Byte(97), Byte(225)}, 2)

\* Byte strings outside the grammar: the empty pattern, unbalanced pairs.
RawBytes ==
  {97, OP_LEFT_PAIR, OP_RIGHT_PAIR, OP_RANGE_START, OP_RANGE_END, OP_UNION,
   BACKSLASH}
RawStrings == UNION {[1..n -> RawBytes] : n \in 0..MaxRawLen}
\* At most one byte follows a '[': Parse pairs the bytes after it into
\* ranges whatever they are, dozens of bytes wide for a '(' and a letter.
RawPatterns ==
  {Raw(bs) : bs \in {s \in RawStrings :
                      \A j \in 1..Len(s) :
                        s[j] = OP_RANGE_START => j >= Len(s) - 1}}

Corpus == PlainPatterns \cup AtomPatterns \cup HighPatterns \cup RawPatterns

ExtraInputBytes == {97, 98, 225}
Inputs(n) ==
  UNION {[1..k -> AtomBytes(n) \cup ExtraInputBytes] : k \in 0..MaxInputLen}

\* ---------------------------------------------------------------------
\* The state machine: one pattern through Parse, Build, the FixedDfa
\* constructor and the two Match entry points.
\* ---------------------------------------------------------------------
VARIABLES
  ast,        \* the tree the pattern is rendered from
  pattern,    \* the pattern, a byte string
  pc,         \* the position in the pipeline
  parser,     \* the NfaParser
  bd,         \* the DfaBuilder and the locals of Build
  iterations, \* the iterations of the loop of Build so far
  dfa,        \* the Dfa returned by build<pattern>() and its states
  fixed,      \* the FixedDfa
  input,      \* the input of Match
  result,     \* the result of FixedDfa::Match
  result_ct,  \* the result of Dfa::Match
  uq,         \* a unique_queue<char> on its own
  uq_seen,    \* the values that a push of uq has accepted so far
  uq_last,    \* the last operation on uq
  mp,         \* a map<char, int> on its own
  mp_last     \* the last operation on mp

\* The variables of the pipeline, and those of the containers that are
\* exercised on their own.
pipeline ==
  <<ast, pattern, pc, parser, bd, iterations, dfa, fixed, input, result,
    result_ct>>

containers == <<uq, uq_seen, uq_last, mp, mp_last>>

vars == <<pipeline, containers>>

\* The containers on their own are not in use.
NoContainers ==
  /\ uq = NewQueue
  /\ uq_seen = {}
  /\ uq_last = [op |-> "none"]
  /\ mp = NewMap
  /\ mp_last = [op |-> "none"]

NoDfa == [dfa |-> NewDfa(0), heap |-> <<>>]
NoFixed ==
  [chs |-> <<>>, ch_index_table |-> <<>>, transitions |-> <<>>,
   st_is_end_table |-> <<>>, pre_index |-> FALSE]

\* The start of the pipeline on a pattern of the set trees.
InitOn(trees) ==
  /\ ast \in trees
  /\ pattern = Render(ast)
  /\ pc = "start"
  /\ parser = NewParser
  /\ bd = NewBuilder
  /\ iterations = 0
  /\ dfa = NoDfa
  /\ fixed = NoFixed
  /\ input = <<>>
  /\ result = FALSE
  /\ result_ct = FALSE
  /\ NoContainers

Init == InitOn(Corpus)

\* The byte strings outside the grammar only, the empty pattern among
\* them.
InitRaw == InitOn(RawPatterns)

\* Parse: Normalize and the EPSILON fragment.
ParseStart ==
  /\ pc = "start"
  /\ parser' = ParseBegin(NewParser, pattern)
  /\ pc' = "parse"
  /\ UNCHANGED <<ast, pattern, bd, dfa, fixed, input, result, result_ct, iterations, containers>>

\* Parse: one iteration of its loop.
ParseSymbol ==
  /\ pc = "parse"
  /\ parser.i < Len(parser.s1)
  /\ parser' = ParseStep(parser)
  /\ UNCHANGED <<ast, pattern, pc, bd, dfa, fixed, input, result, result_ct, iterations, containers>>

\* Parse: the remaining operators, and the return of the top fragment.
ParseReturn ==
  /\ pc = "parse"
  /\ parser.i >= Len(parser.s1)
  /\ parser' = ParseFinish(parser)
  /\ pc' = "build"
  /\ UNCHANGED <<ast, pattern, bd, dfa, fixed, input, result, result_ct, iterations, containers>>

\* Parse: the next step pops an empty stack, which is undefined
\* behaviour; the evaluation is aborted (a constant evaluation is ill
\* formed, a run time evaluation may crash).  ParseSymbol and ParseReturn
\* are the other outcome, in which the pop has no effect.
ParseAbort ==
  /\ pc = "parse"
  /\ parser.ub = {}
  /\ IF parser.i < Len(parser.s1) THEN ParseStep(parser).ub # {}
     ELSE ParseFinish(parser).ub # {}
  /\ pc' = "error"
  /\ UNCHANGED <<ast, pattern, parser, bd, dfa, fixed, input, result, result_ct, iterations, containers>>

\* Build: the start state and the queue.
BuildStart ==
  /\ pc = "build"
  /\ bd' = BuildBegin(NewBuilder, parser.states, StackTop(parser.nfa_stack))
  /\ iterations' = 0
  /\ pc' = "building"
  /\ UNCHANGED <<ast, pattern, parser, dfa, fixed, input, result, result_ct, containers>>

\* Build: one iteration of its loop.
BuildIterate ==
  /\ pc = "building"
  /\ ~QueueEmpty(bd.q)
  /\ iterations < MaxIterations
  /\ bd' = BuildStep(bd, parser.states)
  /\ iterations' = iterations + 1
  /\ UNCHANGED <<ast, pattern, pc, parser, dfa, fixed, input, result, result_ct, containers>>

\* Build returns the dfa; build<pattern>() returns, and the parser and
\* the builder are destroyed.
BuildReturn ==
  /\ pc = "building"
  /\ QueueEmpty(bd.q)
  /\ dfa' = [dfa |-> bd.dfa, heap |-> bd.heap]
  /\ parser' = NewParser
  /\ bd' = NewBuilder
  /\ pc' = "built"
  /\ UNCHANGED <<ast, pattern, fixed, input, result, result_ct, iterations, containers>>

\* The constructor of FixedDfa<pattern, pre_index>.
Freeze ==
  /\ pc = "built"
  /\ \E pre_index \in BOOLEAN :
       fixed' = FixedDfa(dfa, pre_index, DefaultAlphabetSize)
  /\ pc' = "frozen"
  /\ UNCHANGED <<ast, pattern, parser, bd, dfa, input, result, result_ct, iterations, containers>>

\* Match on an input s: FixedDfa::Match on the tables, and Dfa::Match on
\* the dfa of build<pattern>() (the consteval entry point builds it anew,
\* to the same value).
DoMatch ==
  /\ pc = "frozen"
  /\ \E s \in Inputs(ast) :
       /\ input' = s
       /\ result' = FixedMatch(fixed, s, DefaultAlphabetSize)
       /\ result_ct' = DfaMatch(dfa, s)
  /\ pc' = "done"
  /\ UNCHANGED <<ast, pattern, parser, bd, dfa, fixed, iterations, containers>>

Next ==
  \/ ParseStart
  \/ ParseSymbol
  \/ ParseReturn
  \/ ParseAbort
  \/ BuildStart
  \/ BuildIterate
  \/ BuildReturn
  \/ Freeze
  \/ DoMatch

Spec == Init /\ [][Next]_vars

SpecRaw == InitRaw /\ [][Next]_vars

\* ---------------------------------------------------------------------
\* A unique_queue<char> on its own, under any sequence of push and pop.
\* ---------------------------------------------------------------------
\* The pipeline is not in use.
NoPipeline ==
  /\ ast = Raw(<<>>)
  /\ pattern = <<>>
  /\ pc = "idle"
  /\ parser = NewParser
  /\ bd = NewBuilder
  /\ iterations = 0
  /\ dfa = NoDfa
  /\ fixed = NoFixed
  /\ input = <<>>
  /\ result = FALSE
  /\ result_ct = FALSE

\* The values pushed to the queue.
QueueValues == {97, 98, 99, 100}

\* What a caller can see of a queue: the values in their order, the
\* members of the set in the order of its slots, its size and capacity.
QueueView(q) == <<q.items, SetIter(q.s), q.s.n, q.s.cap>>

InitQueue ==
  /\ NoPipeline
  /\ NoContainers

\* uq.push(v).  uq_last keeps the argument, what push returned, whether
\* an earlier push had accepted v, and the queue before the call.
UqPush(v) ==
  /\ uq' = QueuePush(uq, v, HashChar(v))
  /\ uq_last' = [op |-> "push", v |-> v,
                 ret |-> QueuePushReturn(uq, v, HashChar(v)),
                 seen |-> v \in uq_seen, before |-> QueueView(uq)]
  /\ uq_seen' = IF QueuePushReturn(uq, v, HashChar(v)) THEN uq_seen \cup {v}
                ELSE uq_seen
  /\ UNCHANGED <<pipeline, mp, mp_last>>

\* uq.pop(), which throws on an empty queue.
UqPop ==
  /\ ~QueueEmpty(uq)
  /\ uq' = QueuePop(uq, HashChar(Head(uq.items)))
  /\ uq_last' = [op |-> "pop", v |-> Head(uq.items)]
  /\ UNCHANGED <<pipeline, uq_seen, mp, mp_last>>

NextQueue ==
  \/ \E v \in QueueValues : UqPush(v)
  \/ UqPop

SpecQueue == InitQueue /\ [][NextQueue]_vars

\* ---------------------------------------------------------------------
\* A map<char, int> on its own, under any sequence of set, operator[]
\* and pop.
\* ---------------------------------------------------------------------
\* The keys: 'a' and 'h' hash to one slot of a table of 7, 'd' to its
\* last slot.
MapKeys == {97, 104, 100}

MapValues == {1}

\* The used slots that a run of the model follows.
MaxMapSize == 6

InitMap ==
  /\ NoPipeline
  /\ NoContainers

\* mp.set(k, v).  mp_last keeps the key, whether the map had it, and the
\* size before the call.
MpSet(k, v) ==
  /\ mp.n < MaxMapSize
  /\ mp' = MapSet(mp, k, v, HashChar(k))
  /\ mp_last' = [op |-> "set", k |-> k, had |-> MapHas(mp, k, HashChar(k)),
                 n |-> mp.n]
  /\ UNCHANGED <<pipeline, uq, uq_seen, uq_last>>

\* mp[k]
MpSubscript(k) ==
  /\ mp.n < MaxMapSize
  /\ mp' = MapSubscript(mp, k, HashChar(k), 0)
  /\ mp_last' = [op |-> "subscript", k |-> k,
                 had |-> MapHas(mp, k, HashChar(k)), n |-> mp.n]
  /\ UNCHANGED <<pipeline, uq, uq_seen, uq_last>>

\* mp.pop(k)
MpPop(k) ==
  /\ mp' = MapPop(mp, k, HashChar(k))
  /\ mp_last' = [op |-> "pop", k |-> k, had |-> MapHas(mp, k, HashChar(k)),
                 n |-> mp.n]
  /\ UNCHANGED <<pipeline, uq, uq_seen, uq_last>>

NextMap ==
  \/ \E k \in MapKeys : \E v \in MapValues : MpSet(k, v)
  \/ \E k \in MapKeys : MpSubscript(k)
  \/ \E k \in MapKeys : MpPop(k)

SpecMap == InitMap /\ [][NextMap]_vars

\* ---------------------------------------------------------------------
\* The claims.  The grammar side of a claim is InLang on the tree the
\* pattern was rendered from; the code side is result (FixedDfa::Match,
\* behind the run time entry point) and result_ct (Dfa::Match, behind the
\* consteval entry point).
\* ---------------------------------------------------------------------
\* The strings of bytes below the default alphabet size.
Ascii(s) == \A j \in 1..Len(s) : s[j] < DefaultAlphabetSize

\* The strings over the bytes of a tree.
OverBytes(n, s) == \A j \in 1..Len(s) : s[j] \in AtomBytes(n)

\* The kinds of node in a tree.
RECURSIVE Kinds(_)
Kinds(n) == {n.t} \cup UNION {Kinds(n.xs[j]) : j \in 1..Len(n.xs)}

\* The trees of the grammar whose atoms are bytes below the alphabet
\* size and parenthesised expressions.
Plain(n) ==
  /\ Kinds(n) \subseteq {"byte", "paren", "post", "cat", "alt"}
  /\ \A c \in AtomBytes(n) : c < DefaultAlphabetSize

\* C1: for every pattern of the grammar and every input over the bytes
\* of the pattern, Match is true iff the input is in the language the
\* grammar assigns to the pattern, where concatenation binds tighter than
\* '|' (x|yz accepts exactly x and yz).  Stated on the patterns whose
\* atoms are bytes and parenthesised expressions; escapes and classes are
\* the subject of C3 and C4.
C1_MatchIsGrammarLanguage ==
  (pc = "done" /\ Plain(ast) /\ OverBytes(ast, input))
    => (result = InLang(ast, input) /\ result_ct = InLang(ast, input))

\* C2: for every pattern and every input, bytes at and above
\* AlphabetSize included, FixedDfa::Match on the frozen tables returns
\* what Dfa::Match returns on the dfa they were frozen from.
C2_FixedMatchIsDfaMatch == (pc = "done") => (result = result_ct)

\* C3: outside a class, a backslash and a byte x denote the one-byte
\* string x as one atom, in every context: alone, under a postfix
\* operator, concatenated with a byte and as a branch of a union.
C3_EscapeIsLiteralAtom ==
  (/\ pc = "done"
   /\ "esc" \in Kinds(ast)
   /\ Kinds(ast) \subseteq {"esc", "byte", "post", "cat", "alt"}
   /\ Ascii(input))
    => (result = InLang(ast, input) /\ result_ct = InLang(ast, input))

\* C4: a class matches exactly the one-byte strings whose byte is in the
\* union of its items, an item lo-hi being lo..hi and a bare byte b
\* being b..b: [ac] matches a and c and not b, [a] matches exactly a.
C4_ClassIsUnionOfItems ==
  (pc = "done" /\ ast \in {Single(c) : c \in Classes} /\ Ascii(input))
    => (result = InLang(ast, input) /\ result_ct = InLang(ast, input))

\* A pattern is malformed when a '(' has no matching ')', a ')' has no
\* matching '(', or a '[' has no closing ']'; an escaped byte is a
\* literal.
RECURSIVE MalformedFrom(_, _, _, _)
MalformedFrom(s, j, depth, in_class) ==
  IF j > Len(s) THEN depth # 0 \/ in_class
  ELSE IF in_class THEN MalformedFrom(s, j + 1, depth, s[j] # OP_RANGE_END)
  ELSE IF s[j] = BACKSLASH THEN MalformedFrom(s, j + 2, depth, FALSE)
  ELSE IF s[j] = OP_LEFT_PAIR THEN MalformedFrom(s, j + 1, depth + 1, FALSE)
  ELSE IF s[j] = OP_RIGHT_PAIR
    THEN depth = 0 \/ MalformedFrom(s, j + 1, depth - 1, FALSE)
  ELSE MalformedFrom(s, j + 1, depth, s[j] = OP_RANGE_START)

Malformed(s) == MalformedFrom(s, 1, 0, FALSE)

\* C5: the parse of a malformed pattern ends in an error; it never
\* returns a fragment (the pipeline never gets past Parse) and never pops
\* the operator stack while it is empty.
C5_MalformedIsParseError ==
  Malformed(pattern)
    => (pc \in {"start", "parse", "error"} /\ "op_stack" \notin parser.ub)

\* The alphabet chs overflows the alphabet size A: a byte at or above A,
\* or two bytes that are equal modulo A.
AlphabetOverflow(chs, A) ==
  \/ \E j \in 1..Len(chs) : chs[j] >= A
  \/ \E j, k \in 1..Len(chs) : j # k /\ CharIndex(chs[j], A) = CharIndex(chs[k], A)

\* C6: freezing a dfa whose alphabet overflows the alphabet size ends in
\* an error at the construction of the FixedDfa: no FixedDfa is
\* constructed from it.
C6_AlphabetOverflowIsFreezeError ==
  (pc \in {"frozen", "done"})
    => ~AlphabetOverflow(SetIter(dfa.dfa.chs), DefaultAlphabetSize)

\* C7: the automaton of the empty pattern accepts the empty string and
\* rejects every other input, at both entry points.
C7_EmptyPatternAcceptsOnlyEmpty ==
  (pc = "done" /\ pattern = <<>>)
    => (result = (input = <<>>) /\ result_ct = (input = <<>>))

\* C7, its case: the empty pattern has gone through the pipeline and has
\* rejected an input of the greatest length.
C7_Witness ==
  /\ pc = "done"
  /\ pattern = <<>>
  /\ Len(input) = MaxInputLen
  /\ ~result
  /\ ~result_ct

\* C8: for all A and B without a top-level '|' and every input,
\* Match(A|B, s) = Match(B|A, s).  Stated on the patterns of C1 with two
\* branches.
C8_UnionCommutes ==
  (pc = "done" /\ Plain(ast) /\ Len(ast.xs) = 2 /\ Ascii(input))
    => (result = MatchRuntime(Render(Alt(<<ast.xs[2], ast.xs[1]>>)), input))

\* C9: for every atom P (a byte, an escaped byte, a class or a
\* parenthesised expression), P* accepts the empty string and the strings
\* that split into one or more pieces accepted by P, and P+ accepts the
\* strings that split into one or more such pieces.
C9_ClosureLaw ==
  (/\ pc = "done"
   /\ ast \in {Single(Post(a, op)) : a \in Atoms, op \in {OP_CLOSURE, OP_PLUS}}
   /\ Ascii(input))
    => (result = InLang(ast, input) /\ result_ct = InLang(ast, input))

\* C10: every constructed FixedDfa is well formed: the start state has
\* number 1, the numbers of the states are exactly 1..NStates and no two
\* states share one, every nonzero entry of transitions is in 1..NStates,
\* chs holds each accepted byte exactly once, and the index table maps
\* every accepted byte c to the position j with chs[j] = c.
C10_FixedDfaWellFormed ==
  (pc \in {"frozen", "done"})
    => LET sts == SetIter(dfa.dfa.states)
           NStates == dfa.dfa.states.n
           accepted == {it.k : it \in UNION {
                          {MapIter(dfa.heap[sts[j]].transitions)[k] :
                             k \in 1..Len(MapIter(dfa.heap[sts[j]].transitions))} :
                          j \in 1..Len(sts)}}
           t == IndexTable(fixed.chs, DefaultAlphabetSize)
       IN  /\ dfa.heap[dfa.dfa.start].no = 1
           /\ {dfa.heap[sts[j]].no : j \in 1..Len(sts)} = 1..NStates
           /\ \A j, k \in 1..Len(sts) :
                dfa.heap[sts[j]].no = dfa.heap[sts[k]].no => j = k
           /\ \A a \in 1..Len(fixed.transitions) :
                \A b \in 1..Len(fixed.transitions[a]) :
                  fixed.transitions[a][b] \in 0..NStates
           /\ {fixed.chs[j] : j \in 1..Len(fixed.chs)} = accepted
           /\ \A j, k \in 1..Len(fixed.chs) : fixed.chs[j] = fixed.chs[k] => j = k
           /\ \A c \in accepted :
                /\ t[CharIndex(c, DefaultAlphabetSize) + 1] # 0
                /\ fixed.chs[t[CharIndex(c, DefaultAlphabetSize) + 1]] = c

\* ---------------------------------------------------------------------
\* The naive simulation of an NFA on sets of NfaStates, the reference of
\* C11: sts is the vector of the NfaStates, a set of states is a set of
\* their ids.
\* ---------------------------------------------------------------------
Elems(seq) == {seq[k] : k \in 1..Len(seq)}

\* The NfaStates that the NfaState j reaches on c.
NfaNexts(sts, j, c) ==
  IF AcceptC(sts[j], c) THEN Elems(SetIter(Nexts(sts[j], c))) ELSE {}

NfaStepOn(sts, X, c) == UNION {NfaNexts(sts, j, c) : j \in X}

RECURSIVE NfaClosure(_, _)
NfaClosureGrow(sts, X, Y) == IF Y \subseteq X THEN X ELSE NfaClosure(sts, X \cup Y)

NfaClosure(sts, X) == NfaClosureGrow(sts, X, NfaStepOn(sts, X, EPSILON))

RECURSIVE NfaSimulate(_, _, _, _)
NfaSimulate(sts, X, s, j) ==
  IF j > Len(s) THEN X
  ELSE NfaSimulate(sts, NfaClosure(sts, NfaStepOn(sts, X, s[j])), s, j + 1)

NfaMatch(sts, nfa, s) ==
  \E x \in NfaSimulate(sts, NfaClosure(sts, {nfa.start}), s, 1) : sts[x].is_end

\* The loop of Build has ended: bd.dfa, with the states of bd.heap, is
\* the Dfa that Build returns.
BuildDone == pc = "building" /\ QueueEmpty(bd.q)

BuiltDfa == [dfa |-> bd.dfa, heap |-> bd.heap]

NoEpsilon(s) == \A j \in 1..Len(s) : s[j] # EPSILON

\* C11: for the Nfa that Parse returned and every input without the
\* EPSILON byte, Dfa::Match on the Dfa that Build returns is true iff the
\* naive simulation of the Nfa ends in a set holding an accepting
\* NfaState.
C11_SubsetConstructionKeepsLanguage ==
  BuildDone =>
    \A s \in Inputs(ast) :
      NoEpsilon(s) =>
        (DfaMatch(BuiltDfa, s)
           = NfaMatch(parser.states, StackTop(parser.nfa_stack), s))

\* C11, its case: a Dfa of three states or more that accepts one input
\* of the greatest length and rejects another, as the Nfa does.
C11_Witness ==
  /\ BuildDone
  /\ Len(bd.heap) >= 3
  /\ \E s, r \in Inputs(ast) :
       /\ Len(s) = MaxInputLen /\ Len(r) = MaxInputLen
       /\ NoEpsilon(s) /\ NoEpsilon(r)
       /\ DfaMatch(BuiltDfa, s)
       /\ NfaMatch(parser.states, StackTop(parser.nfa_stack), s)
       /\ ~DfaMatch(BuiltDfa, r)
       /\ ~NfaMatch(parser.states, StackTop(parser.nfa_stack), r)

\* C12: a push of a value that a push has accepted at any earlier point
\* since the queue was created, popped since or not, returns false and
\* leaves the queue as it was; so push accepts each value at most once.
C12_PushAcceptsOnce ==
  (uq_last.op = "push" /\ uq_last.seen)
    => (~uq_last.ret /\ QueueView(uq) = uq_last.before)

\* C13: Build terminates for every Nfa that Parse returns.  A state is
\* enqueued only while it is neither in the dfa nor in the queue, so the
\* loop of Build pops each DfaState at most twice (once more when it was
\* enqueued during its own expansion), and the DfaStates are at most the
\* non-empty subsets of the NfaStates: the iterations of the loop never
\* exceed twice the number of the DfaStates, and the run of the model
\* never stops at MaxIterations with states left in the queue.
C13_BuildTerminates ==
  (pc = "building") =>
    /\ iterations <= 2 * Len(bd.heap)
    /\ Len(bd.heap) < 2 ^ Len(parser.states)
    /\ bd.states.n = Len(bd.heap)
    /\ iterations = MaxIterations => QueueEmpty(bd.q)

\* C13, its case: Build has returned a Dfa of three states or more, one
\* of them with a transition to itself.
C13_Witness ==
  /\ pc = "built"
  /\ iterations > Len(dfa.heap)
  /\ Len(dfa.heap) >= 3
  /\ \E S \in 1..Len(dfa.heap) :
       \E c \in AtomBytes(ast) :
         HasTransition(dfa.heap[S], c) /\ Next_(dfa.heap[S], c) = S

\* The normalisation that C14 describes.  s1 is the output so far, prev
\* the byte before s[j]; in_range says that an unescaped '[' is open,
\* escaped that s[j] is preceded by an escaping backslash.
RECURSIVE ConcatMarkedFrom(_, _, _, _, _)
ConcatMarkedFrom(s, j, s1, in_range, escaped) ==
  IF j > Len(s) THEN s1
  ELSE ConcatMarkedFrom(
         s, j + 1,
         IF /\ j > 1
            /\ ~in_range
            /\ s[j] \notin {OP_CONCAT, OP_UNION, OP_CLOSURE, OP_PLUS, OP_OPTIONAL,
                            OP_RIGHT_PAIR, OP_RANGE_END, OP_RANGE_TO}
            /\ s[j - 1] \notin {OP_CONCAT, OP_UNION, OP_LEFT_PAIR}
           THEN s1 \o <<OP_CONCAT, s[j]>> ELSE Append(s1, s[j]),
         IF in_range THEN s[j] # OP_RANGE_END
         ELSE s[j] = OP_RANGE_START /\ ~escaped,
         ~in_range /\ ~escaped /\ s[j] = BACKSLASH)

ConcatMarked(s) == ConcatMarkedFrom(s, 1, <<>>, FALSE, FALSE)

\* C14: Normalize returns the pattern with a '&' between each adjacent
\* pair L R where R is none of & | * + ? ) ] - and L is none of & | (,
\* but none between an unescaped '[' and the next ']'; a '[' behind an
\* escaping backslash opens no such region; no other byte is added,
\* removed or moved.
C14_NormalizeInsertsConcat ==
  (pc = "parse") => (parser.s1 = ConcatMarked(pattern))

\* The NfaStates that the NfaState j reaches on any one transition.
NfaSuccs(sts, j) ==
  UNION {Elems(SetIter(it.v)) : it \in Elems(MapIter(sts[j].transitions))}

RECURSIVE NfaReach(_, _)
NfaReachGrow(sts, X, Y) == IF Y \subseteq X THEN X ELSE NfaReach(sts, X \cup Y)

\* The NfaStates reachable from those of X.
NfaReach(sts, X) == NfaReachGrow(sts, X, UNION {NfaSuccs(sts, j) : j \in X})

\* The DfaState that Dfa::Match is in after the bytes of s from index j,
\* 0 when a byte has no transition.
RECURSIVE DfaStateOn(_, _, _, _)
DfaStateOn(heap, st, s, j) ==
  IF j > Len(s) THEN st
  ELSE IF ~HasTransition(heap[st], s[j]) THEN 0
  ELSE DfaStateOn(heap, Next_(heap[st], s[j]), s, j + 1)

\* The DfaState st, reached on s, is accepting iff the subset N of the
\* NfaStates that s leads to holds the NfaState end.
AcceptsByEnd(heap, st, N, end) ==
  IF st = 0 THEN N = {} ELSE heap[st].is_end = (end \in N)

\* C15: after every step of Parse, an NfaState whose accepting flag is
\* set has no outgoing transition, and in every fragment on the stack
\* the one accepting state reachable from its start is its end; and in
\* the dfa that Build returns a DfaState is accepting iff its subset of
\* NfaStates holds the end of the fragment that Parse returned.
C15_AcceptingStateIsFragmentEnd ==
  (pc \in {"parse", "build", "building"}) =>
    /\ \A j \in 1..Len(parser.states) :
         parser.states[j].is_end => parser.states[j].transitions.n = 0
    /\ \A k \in 1..Len(parser.nfa_stack) :
         {x \in NfaReach(parser.states, {parser.nfa_stack[k].start}) :
            parser.states[x].is_end} = {parser.nfa_stack[k].end}
    /\ BuildDone =>
         \A s \in Inputs(ast) :
           NoEpsilon(s) =>
             AcceptsByEnd(bd.heap, DfaStateOn(bd.heap, bd.dfa.start, s, 1),
                          NfaSimulate(parser.states,
                                      NfaClosure(parser.states,
                                                 {StackTop(parser.nfa_stack).start}),
                                      s, 1),
                          StackTop(parser.nfa_stack).end)

\* C15, its case: Parse has returned a fragment built from others, one
\* of whose ends lost its flag, and Build has made of it a dfa with an
\* accepting state and a state that is not.
C15_Witness ==
  /\ BuildDone
  /\ parser.ub = {}
  /\ Len(parser.states) >= 6
  /\ 2 * Cardinality({j \in 1..Len(parser.states) : parser.states[j].is_end})
       < Len(parser.states)
  /\ \E a, b \in 1..Len(bd.heap) : bd.heap[a].is_end /\ ~bd.heap[b].is_end

\* The bytes other than EPSILON on the transitions of the NfaStates.
NfaAlphabet(sts) ==
  UNION {{it.k : it \in Elems(MapIter(sts[j].transitions))} : j \in 1..Len(sts)}
    \ {EPSILON}

\* The subsets of NfaStates that the subset construction reaches from
\* those of X: the non-empty closures of the steps on the bytes of A.
RECURSIVE ClosedSubsets(_, _, _)
ClosedSubsetsGrow(sts, A, X, Y) ==
  IF Y \subseteq X THEN X ELSE ClosedSubsets(sts, A, X \cup Y)

ClosedSubsets(sts, A, X) ==
  ClosedSubsetsGrow(
    sts, A, X,
    {NfaClosure(sts, NfaStepOn(sts, N, c)) : N \in X, c \in A} \ {{}})

\* The ids of a set in ascending order, and the id of the DfaState of a
\* subset: the hash of its sorted ids.
RECURSIVE Ascending(_)
AscendingFrom(S, m) == <<m>> \o Ascending(S \ {m})

Ascending(S) ==
  IF S = {} THEN <<>> ELSE AscendingFrom(S, CHOOSE x \in S : \A y \in S : x <= y)

SubsetId(N) == HashVec(Ascending(N))

\* The DfaStates of heap and the subsets of R correspond one to one by
\* the id, and the transitions of the DfaStates follow the subsets.
OneToOne(heap, sts, A, R) ==
  /\ Cardinality(R) = Len(heap)
  /\ \A j, k \in 1..Len(heap) : heap[j].id = heap[k].id => j = k
  /\ {SubsetId(N) : N \in R} = {heap[j].id : j \in 1..Len(heap)}
  /\ \A N \in R :
       \A j \in 1..Len(heap) :
         heap[j].id = SubsetId(N) =>
           \A c \in A :
             IF NfaClosure(sts, NfaStepOn(sts, N, c)) = {}
               THEN ~HasTransition(heap[j], c)
             ELSE /\ HasTransition(heap[j], c)
                  /\ heap[Next_(heap[j], c)].id
                       = SubsetId(NfaClosure(sts, NfaStepOn(sts, N, c)))

\* C16: in the dfa that Build returns, the DfaStates correspond one to
\* one to the closed subsets of NfaStates reachable from the closure of
\* the start: no two DfaStates stand for one subset, every reachable
\* subset has its DfaState, and a transition on c from the DfaState of N
\* leads to the one DfaState of the closure of the step of N on c, by
\* whichever path Move came to it.
C16_DfaStatesAreSubsets ==
  BuildDone =>
    OneToOne(bd.heap, parser.states, NfaAlphabet(parser.states),
             ClosedSubsets(parser.states, NfaAlphabet(parser.states),
                           {NfaClosure(parser.states,
                                       {StackTop(parser.nfa_stack).start})}))

\* C16, its case: Build has returned a dfa of three states or more in
\* which Move came to one DfaState from two different states.
C16_Witness ==
  /\ BuildDone
  /\ Len(bd.heap) >= 3
  /\ \E S1, S2, T \in 1..Len(bd.heap) :
       /\ Cardinality({S1, S2, T}) = 3
       /\ \E c1, c2 \in NfaAlphabet(parser.states) :
            /\ HasTransition(bd.heap[S1], c1) /\ Next_(bd.heap[S1], c1) = T
            /\ HasTransition(bd.heap[S2], c2) /\ Next_(bd.heap[S2], c2) = T

\* The slots of the map m that are in use and hold the key k.
SlotsOf(m, k) == {p \in 1..m.cap : m.b[p].used /\ m.b[p].k = k}

\* The keys present in the map m.
KeysOf(m) == {k \in MapKeys : SlotsOf(m, k) # {}}

\* C17: after any sequence of set, operator[] and pop, and the resizes
\* they trigger, every key is in at most one used slot, size() is the
\* number of the keys present, an iteration yields each present key
\* once, and a set on a key that is present leaves size() as it was.
C17_MapKeysAreUnique ==
  /\ \A k \in MapKeys : Cardinality(SlotsOf(mp, k)) <= 1
  /\ mp.n = Cardinality(KeysOf(mp))
  /\ Len(MapIter(mp)) = Cardinality(KeysOf(mp))
  /\ Elems(Keys(MapIter(mp))) = KeysOf(mp)
  /\ (mp_last.op = "set" /\ mp_last.had) => mp.n = mp_last.n

\* C18: during Build every DfaState is popped from the queue and
\* expanded exactly once: a state that has been popped, the state under
\* expansion with a transition to itself included, is never enqueued
\* again.  So no state of the queue is in the dfa, to which a state is
\* added at the end of its expansion, and when the loop ends it has run
\* once for each DfaState.
C18_EachStateExpandedOnce ==
  (pc = "building") =>
    /\ \A j \in 1..Len(bd.q.items) :
         ~MapHas(bd.dfa.states, bd.q.items[j], HashDfaPtr(bd.heap, bd.q.items[j]))
    /\ QueueEmpty(bd.q) => iterations = Len(bd.heap)

====
